---- MODULE Spec2Model ----
(***************************************************************************)
(* The blind-peer command-line supervisor (bin.js): the command handler    *)
(* that resolves the flags, constructs the BlindPeer engine, attaches the  *)
(* log listeners, registers the graceful-goodbye hook, awaits ready() and  *)
(* listen(), optionally sets up hyper-instrument, and arms the             *)
(* auto-shutdown timer.                                                    *)
(*                                                                         *)
(* JavaScript runs each synchronous stretch of code to completion, so the  *)
(* handler is cut at its awaits: signals, timers, engine events and the    *)
(* settling of promises are taken only while the handler is suspended.     *)
(* The collaborators (BlindPeer, Instrumentation, graceful-goodbye) are    *)
(* the environment: each of their promises resolves or rejects.            *)
(***************************************************************************)
EXTENDS Integers, Sequences, FiniteSets, TLC

\* ------------------------------------------------------------------ bounds
MaxNumLen == 2       \* longest numeric flag string drawn
MaxTrusted == 2      \* most --trusted-peer occurrences drawn
HexKeyLen == 2       \* characters of a hex-encoded key (64 in hypercore-id-encoding)
JitterSteps == 3      \* Math.random() is drawn from 0/JitterSteps .. (JitterSteps-1)/JitterSteps
MaxStreams == 2       \* most raw streams the sampler meets in one run
MaxGroupsSet == 1    \* most option groups that deviate from their defaults

\* ------------------------------------------------------- program constants
DEFAULT_STORAGE_LIMIT_MB == 100000
BytesPerMb == 1000000
AliasMaxLen == 99
AliasSliceEnd == 99
Z32KeyLen == 52
JitterDivisor == 5
SecondsPerMinute == 60
MsPerSecond == 1000
BigStreamThreshold == 100

SERVICE_NAME == <<"b","l","i","n","d","-","p","e","e","r">>

\* ------------------------------------------------------------ JS values
\* An optional flag: paparam leaves an unsupplied flag undefined.
None == [set |-> FALSE, v |-> <<>>]
Some(x) == [set |-> TRUE, v |-> x]
\* JS truthiness of an optional string: undefined and "" are falsy.
Truthy(o) == o.set /\ o.v # <<>>

\* A JS number that is an integer or NaN; digits are decimal, most
\* significant first (the byte budget exceeds 32 bits).
NaN == [nan |-> TRUE, neg |-> FALSE, digits |-> <<>>]
Num(ds, neg) == [nan |-> FALSE, neg |-> neg, digits |-> ds]

RECURSIVE FromNat(_)
FromNat(n) == IF n < 10 THEN <<n>> ELSE Append(FromNat(n \div 10), n % 10)

RECURSIVE ToNat(_)
ToNat(ds) == IF ds = <<>> THEN 0 ELSE 10 * ToNat(SubSeq(ds, 1, Len(ds) - 1)) + ds[Len(ds)]

RECURSIVE StripZeros(_)
StripZeros(ds) == IF Len(ds) > 1 /\ ds[1] = 0 THEN StripZeros(Tail(ds)) ELSE ds

DigitChar(d) ==
  CASE d = 0 -> "0" [] d = 1 -> "1" [] d = 2 -> "2" [] d = 3 -> "3" [] d = 4 -> "4"
    [] d = 5 -> "5" [] d = 6 -> "6" [] d = 7 -> "7" [] d = 8 -> "8" [] d = 9 -> "9"

\* The value of a character as a digit, 99 when it is none.
HexVal(c) ==
  CASE c = "0" -> 0 [] c = "1" -> 1 [] c = "2" -> 2 [] c = "3" -> 3 [] c = "4" -> 4
    [] c = "5" -> 5 [] c = "6" -> 6 [] c = "7" -> 7 [] c = "8" -> 8 [] c = "9" -> 9
    [] c = "a" -> 10 [] c = "b" -> 11 [] c = "c" -> 12 [] c = "d" -> 13
    [] c = "e" -> 14 [] c = "f" -> 15 [] OTHER -> 99

IsDigitIn(c, radix) == HexVal(c) < radix

\* String(n) of a non-negative integer.
NumToStr(n) == [i \in 1..Len(FromNat(n)) |-> DigitChar(FromNat(n)[i])]

RECURSIVE DigitPrefix(_, _)
DigitPrefix(s, radix) ==
  IF s = <<>> \/ ~IsDigitIn(s[1], radix) THEN <<>>
  ELSE <<s[1]>> \o DigitPrefix(Tail(s), radix)

RECURSIVE Accumulate(_, _, _)
Accumulate(s, radix, acc) ==
  IF s = <<>> THEN acc ELSE Accumulate(Tail(s), radix, acc * radix + HexVal(s[1]))

\* parseInt(s) with no radix given: an optional sign, an optional 0x prefix,
\* then the longest prefix of digits; NaN when there is none.
ParseInt(s) ==
  LET signed == s # <<>> /\ s[1] \in {"-", "+"}
      body == IF signed THEN Tail(s) ELSE s
      hex == Len(body) >= 2 /\ body[1] = "0" /\ body[2] \in {"x", "X"}
      radix == IF hex THEN 16 ELSE 10
      pre == DigitPrefix(IF hex THEN SubSeq(body, 3, Len(body)) ELSE body, radix)
  IN IF pre = <<>> THEN NaN
     ELSE Num(FromNat(Accumulate(pre, radix, 0)), signed /\ s[1] = "-")

RECURSIVE MulDigits(_, _, _)
MulDigits(ds, k, carry) ==
  IF ds = <<>> THEN (IF carry = 0 THEN <<>> ELSE FromNat(carry))
  ELSE LET p == ds[Len(ds)] * k + carry
       IN Append(MulDigits(SubSeq(ds, 1, Len(ds) - 1), k, p \div 10), p % 10)

\* k * x for a small positive k: NaN stays NaN.
JsTimes(k, x) ==
  IF x.nan THEN NaN ELSE Num(StripZeros(MulDigits(x.digits, k, 0)), x.neg)

\* The number a string is coerced to by an arithmetic operator: "" is 0,
\* decimal digits and 0x-prefixed hex digits are their value, anything else
\* of the characters drawn is NaN.
ToNumber(s) ==
  IF s = <<>> THEN Num(<<0>>, FALSE)
  ELSE IF /\ Len(s) > 2 /\ s[1] = "0" /\ s[2] \in {"x", "X"}
          /\ \A i \in 3..Len(s) : IsDigitIn(s[i], 16)
  THEN Num(FromNat(Accumulate(SubSeq(s, 3, Len(s)), 16, 0)), FALSE)
  ELSE IF \A i \in 1..Len(s) : IsDigitIn(s[i], 10)
  THEN Num(FromNat(Accumulate(s, 10, 0)), FALSE)
  ELSE NaN

\* ----------------------------------------------------------------- keys
IsHexChar(c) == HexVal(c) < 16

\* idEnc.decode: the key's bytes, or it throws (ok = FALSE). Only the hex
\* encoding is drawn.
Decode(raw) ==
  IF Len(raw) = HexKeyLen /\ \A i \in 1..Len(raw) : IsHexChar(raw[i])
  THEN [ok |-> TRUE, key |-> [i \in 1..Len(raw) |-> HexVal(raw[i])]]
  ELSE [ok |-> FALSE, key |-> <<>>]

\* idEnc.decode of an optional flag: decode(undefined) throws.
DecodeFlag(o) == IF o.set THEN Decode(o.v) ELSE [ok |-> FALSE, key |-> <<>>]

Z32Char(n) ==
  CASE n = 0 -> "y" [] n = 1 -> "b" [] n = 2 -> "n" [] n = 3 -> "d" [] n = 4 -> "r"
    [] n = 5 -> "f" [] n = 6 -> "g" [] n = 7 -> "8" [] n = 8 -> "e" [] n = 9 -> "j"
    [] n = 10 -> "k" [] n = 11 -> "m" [] n = 12 -> "c" [] n = 13 -> "p"
    [] n = 14 -> "q" [] n = 15 -> "x"

\* idEnc.normalize: the z32 text of a key, Z32KeyLen characters.
Normalize(key) == [i \in 1..Z32KeyLen |-> Z32Char(key[((i - 1) % Len(key)) + 1])]

\* String.prototype.slice(0, end).
Slice0(s, end) == SubSeq(s, 1, IF Len(s) < end THEN Len(s) ELSE end)

\* ---------------------------------------------------------------- flags
NumAlphabet == {"0", "7", "x"}
NumStrings == UNION {[1..n -> NumAlphabet] : n \in 0..MaxNumLen}

GoodId == [i \in 1..HexKeyLen |-> "a"]
OtherGoodId == [i \in 1..HexKeyLen |-> "3"]
BadCharId == [i \in 1..HexKeyLen |-> IF i = 1 THEN "z" ELSE "a"]
ShortId == [i \in 1..(HexKeyLen - 1) |-> "a"]

Opt(S) == {None} \cup {Some(x) : x \in S}

AliasOfLen(n) == [i \in 1..n |-> "x"]
AliasStrings == {AliasOfLen(n) : n \in {0, 1, AliasMaxLen, AliasMaxLen + 1}}

TrustedLists == UNION {[1..n -> {GoodId, OtherGoodId, BadCharId}] : n \in 0..MaxTrusted}

\* The flags are drawn in groups; at most MaxGroupsSet groups leave their
\* defaults in one run.
Groups == {"network", "logging", "trust", "budget", "autodiscovery", "scraper",
           "repl", "autoShutdown"}

In(g, S, dom, default) == IF g \in S THEN dom ELSE {default}

FlagsOf(S) ==
  [storage : In("network", S, Opt({<<"d">>}), None),
   port : In("network", S, Opt({<<"7">>, <<"x">>}), None),
   debug : In("logging", S, BOOLEAN, FALSE),
   logStreams : In("logging", S, BOOLEAN, FALSE),
   trustedPeer : In("trust", S, TrustedLists, <<>>),
   maxStorage : In("budget", S, Opt(NumStrings), None),
   autodiscoveryRpcKey : In("autodiscovery", S, Opt({GoodId}), None),
   scraperPublicKey : In("scraper", S, Opt({GoodId, BadCharId}), None),
   scraperSecret : In("scraper", S, Opt({GoodId, ShortId}), None),
   scraperAlias : In("scraper", S, Opt(AliasStrings), None),
   repl : In("repl", S, Opt({GoodId, BadCharId}), None),
   autoShutdownMinutes : In("autoShutdown", S, Opt(NumStrings), None)]

FlagSpace ==
  UNION {FlagsOf(S) : S \in {T \in SUBSET Groups : Cardinality(T) <= MaxGroupsSet}}

\* ---------------------------------------------------------------- state
VARIABLES
  flags,            \* the parsed command line
  pc,               \* where the command handler stands
  proc,             \* "running", "crashed" (uncaught error), "exited", "killed"
  error,            \* what the handler threw, "none" until then
  config,           \* the handler's storage, port, maxBytes, trustedPubKeys
  blindPeer,        \* the engine as the handler has driven it
  instrumentation,  \* the handler's instrumentation variable
  hook,             \* the goodbye hook: registered, its position, its trigger
  timers,           \* the auto-shutdown timeout and the log-streams interval
  repl,             \* the repl swarm was started
  log,              \* the records the handler and the hook wrote
  delivered,        \* the latest engine event handed to a listener
  sample            \* the latest run of the log-streams sampler

vars == <<flags, pc, proc, error, config, blindPeer, instrumentation, hook,
          timers, repl, log, delivered, sample>>

NoPayload == [obj |-> TRUE, key |-> TRUE, stream |-> TRUE, err |-> TRUE, flag |-> FALSE]

NoDelivery == [event |-> "none", payload |-> NoPayload, records |-> <<>>, threw |-> FALSE]

NoKey == <<>>

\* No timeout armed: no delay.
NoDelay == [nan |-> TRUE, num |-> 0, den |-> 1]

\* The sampler has not run.
NoSample == [taken |-> FALSE, failedBefore |-> FALSE, streams |-> <<>>,
             enumerable |-> TRUE, records |-> <<>>, errored |-> FALSE]

\* The state when the command handler is entered.
Start ==
  /\ pc = "start"
  /\ proc = "running"
  /\ error = "none"
  /\ config = [resolved |-> FALSE, storage |-> <<>>, port |-> NaN,
               portSet |-> FALSE, maxBytes |-> NaN, trustedPubKeys |-> <<>>]
  /\ blindPeer = [constructed |-> FALSE, trustedPubKeys |-> <<>>, maxBytes |-> NaN,
                  listeners |-> {}, swarmListeners |-> {},
                  readyCalled |-> FALSE, opened |-> FALSE,
                  listenCalled |-> FALSE, listening |-> FALSE,
                  closeCalled |-> FALSE, closed |-> FALSE,
                  metricsRegistered |-> FALSE, publicKey |-> NoKey]
  /\ instrumentation = [exists |-> FALSE, prometheusAlias |-> <<>>,
                        readyCalled |-> FALSE, ready |-> FALSE,
                        closeCalled |-> FALSE, closed |-> FALSE]
  /\ hook = [registered |-> FALSE, pc |-> "idle", trigger |-> "none"]
  /\ timers = [autoShutdown |-> "none", logStreams |-> FALSE,
               delay |-> NoDelay, ms |-> NoDelay]
  /\ repl = FALSE
  /\ log = <<>>
  /\ delivered = NoDelivery
  /\ sample = NoSample

Init == flags \in FlagSpace /\ Start

\* --------------------------------------------------------------- logging
LevelNum(l) == CASE l = "debug" -> 20 [] l = "info" -> 30 [] l = "warn" -> 40
                 [] l = "error" -> 50

\* A logger without a level: every record is written.
Emit_NoLevel(records, level, msg) == Append(records, [level |-> level, msg |-> msg])

\* pino at level debug or info: a record below the level is dropped.
Emit(records, level, msg) ==
  IF LevelNum(level) >= LevelNum(IF flags.debug THEN "debug" ELSE "info")
  THEN Append(records, [level |-> level, msg |-> msg])
  ELSE records

\* An error thrown out of the command handler is uncaught: the process ends.
Throw(cause) ==
  /\ proc' = "crashed"
  /\ error' = cause

\* The process lives and no listener is in the middle of its run.
Running == proc = "running" /\ delivered.event = "none"

\* ----------------------------------------------- the command handler
\* A map that drops the keys that do not decode instead of throwing.
TrustedPubKeys_SkipInvalid(raws) ==
  [ok |-> TRUE,
   keys |-> LET good == SelectSeq(raws, LAMBDA r : Decode(r).ok)
            IN [i \in 1..Len(good) |-> Decode(good[i]).key]]

\* bin.js 81: (flags.trustedPeer || []).map((k) => idEnc.decode(k)); one
\* key that does not decode throws (ok = FALSE).
TrustedPubKeys(raws) ==
  LET decoded == [i \in 1..Len(raws) |-> Decode(raws[i])]
  IN [ok |-> \A i \in 1..Len(raws) : decoded[i].ok,
      keys |-> [i \in 1..Len(raws) |-> decoded[i].key]]

\* bin.js 80: 1_000_000 * parseInt(flags.maxStorage || DEFAULT_STORAGE_LIMIT_MB).
MaxBytes(maxStorage) ==
  JsTimes(BytesPerMb, ParseInt(IF Truthy(maxStorage) THEN maxStorage.v
                               ELSE NumToStr(DEFAULT_STORAGE_LIMIT_MB)))

\* bin.js 68-81: the logger, the storage path, the port, the byte budget and
\* the trusted keys.
ResolveConfig ==
  /\ Running /\ pc = "start"
  /\ log' = Emit(log, "info", "Starting blind peer")
  /\ IF ~TrustedPubKeys(flags.trustedPeer).ok
     THEN /\ Throw("undecodable-trusted-peer")
          /\ UNCHANGED <<pc, config>>
     ELSE /\ config' = [resolved |-> TRUE,
                        storage |-> IF Truthy(flags.storage) THEN flags.storage.v
                                    ELSE <<"b","l","i","n","d","-","p","e","e","r">>,
                        port |-> IF Truthy(flags.port) THEN ParseInt(flags.port.v)
                                 ELSE NaN,
                        portSet |-> Truthy(flags.port),
                        maxBytes |-> MaxBytes(flags.maxStorage),
                        trustedPubKeys |-> TrustedPubKeys(flags.trustedPeer).keys]
          /\ pc' = "construct"
          /\ UNCHANGED <<proc, error>>
  /\ UNCHANGED <<flags, sample, blindPeer, instrumentation, hook, timers, repl, delivered>>

\* bin.js 83-87: new BlindPeer(storage, { trustedPubKeys, maxBytes, port }),
\* which may throw.
Construct ==
  /\ Running /\ pc = "construct"
  /\ \/ /\ blindPeer' = [blindPeer EXCEPT !.constructed = TRUE,
                                          !.trustedPubKeys = config.trustedPubKeys,
                                          !.maxBytes = config.maxBytes]
        /\ pc' = "attach"
        /\ UNCHANGED <<proc, error>>
     \/ /\ Throw("engine-construction")
        /\ UNCHANGED <<pc, blindPeer>>
  /\ UNCHANGED <<flags, sample, config, instrumentation, hook, timers, repl, log, delivered>>

\* The events the handler listens to on the engine (bin.js 89-201);
\* core-activity only in debug mode (bin.js 188-192).
EngineEvents ==
  {"flush-error", "muxer-paired", "muxer-error", "add-cores-received",
   "add-cores-done", "add-new-core", "delete-blocked", "delete-core",
   "delete-core-end", "downgrade-announce", "add-cores-downgrade-announce",
   "announce-core", "announced-initial-cores", "core-downloaded", "core-append",
   "core-client-mode-changed", "gc-start", "gc-done", "invalid-request"}

\* bin.js 89-208: blindPeer.on(...) for every event, then the storage and
\* trusted-key records.
AttachListeners ==
  /\ Running /\ pc = "attach"
  /\ blindPeer' = [blindPeer EXCEPT !.listeners =
                     EngineEvents \cup (IF flags.debug THEN {"core-activity"} ELSE {})]
  /\ log' = LET l1 == Emit(log, "info", "Using storage")
            IN IF Len(config.trustedPubKeys) > 0
               THEN Emit(l1, "info", "Trusted public keys") ELSE l1
  /\ pc' = "goodbye"
  /\ UNCHANGED <<flags, sample, proc, error, config, instrumentation, hook, timers, repl, delivered>>

\* bin.js 210-219: let instrumentation = null; goodbye(async () => ...).
RegisterHook ==
  /\ Running /\ pc = "goodbye"
  /\ hook' = [hook EXCEPT !.registered = TRUE]
  /\ pc' = "repl"
  /\ UNCHANGED <<flags, sample, proc, error, config, blindPeer, instrumentation, timers, repl,
                 log, delivered>>

\* bin.js 221-226: the repl swarm, when a seed is given.
SetupRepl ==
  /\ Running /\ pc = "repl"
  /\ IF ~Truthy(flags.repl)
     THEN /\ pc' = "ready"
          /\ UNCHANGED <<proc, error, repl, log>>
     ELSE IF ~Decode(flags.repl.v).ok
     THEN /\ Throw("undecodable-repl-seed")
          /\ UNCHANGED <<pc, repl, log>>
     ELSE /\ log' = Emit(log, "warn", "Setting up REPL swarm")
          /\ repl' = TRUE
          /\ pc' = "ready"
          /\ UNCHANGED <<proc, error>>
  /\ UNCHANGED <<flags, sample, config, blindPeer, instrumentation, hook, timers, delivered>>

\* bin.js 228: blindPeer.ready() is called and awaited.
CallReady ==
  /\ Running /\ pc = "ready"
  /\ blindPeer' = [blindPeer EXCEPT !.readyCalled = TRUE]
  /\ pc' = "awaitReady"
  /\ UNCHANGED <<flags, sample, proc, error, config, instrumentation, hook, timers, repl, log,
                 delivered>>

NodeKeys == {[i \in 1..HexKeyLen |-> v] : v \in {4, 11}}

\* ready() resolves: the engine is open and its key pair is known.
ReadyResolves ==
  /\ Running /\ pc = "awaitReady"
  /\ \E k \in NodeKeys :
       blindPeer' = [blindPeer EXCEPT !.opened = TRUE, !.publicKey = k]
  /\ pc' = "swarm"
  /\ UNCHANGED <<flags, sample, proc, error, config, instrumentation, hook, timers, repl, log,
                 delivered>>

\* ready() rejects: the await throws.
ReadyRejects ==
  /\ Running /\ pc = "awaitReady"
  /\ Throw("ready-rejected")
  /\ UNCHANGED <<flags, sample, pc, config, blindPeer, instrumentation, hook, timers, repl, log,
                 delivered>>

\* A handler that goes on to listen without the swarm's listeners.
AttachSwarmListeners_Skipped ==
  /\ Running /\ pc = "swarm"
  /\ pc' = "logStreams"
  /\ UNCHANGED <<flags, sample, proc, error, config, blindPeer, instrumentation, hook,
                 timers, repl, log, delivered>>

\* bin.js 229-245: the swarm's ban listener, and connection in debug mode.
AttachSwarmListeners ==
  /\ Running /\ pc = "swarm"
  /\ blindPeer' = [blindPeer EXCEPT !.swarmListeners =
                     {"ban"} \cup (IF flags.debug THEN {"connection"} ELSE {})]
  /\ pc' = "logStreams"
  /\ UNCHANGED <<flags, sample, proc, error, config, instrumentation, hook, timers, repl, log,
                 delivered>>

\* bin.js 247-269: the stream sampler's interval, when --log-streams is set.
SetupLogStreams ==
  /\ Running /\ pc = "logStreams"
  /\ IF flags.logStreams
     THEN /\ log' = Emit(log, "warn", "Advanced debugging option log-streams enabled")
          /\ timers' = [timers EXCEPT !.logStreams = TRUE]
     ELSE UNCHANGED <<log, timers>>
  /\ pc' = "listen"
  /\ UNCHANGED <<flags, sample, proc, error, config, blindPeer, instrumentation, hook, repl,
                 delivered>>

\* A handler that arms the auto-shutdown timeout before it awaits listen().
CallListen_ArmsTimer ==
  /\ Running /\ pc = "listen"
  /\ blindPeer' = [blindPeer EXCEPT !.listenCalled = TRUE]
  /\ timers' = IF Truthy(flags.autoShutdownMinutes)
               THEN [timers EXCEPT !.autoShutdown = "armed"] ELSE timers
  /\ pc' = "awaitListen"
  /\ UNCHANGED <<flags, sample, proc, error, config, instrumentation, hook, repl, log,
                 delivered>>

\* bin.js 271: blindPeer.listen() is called and awaited.
CallListen ==
  /\ Running /\ pc = "listen"
  /\ blindPeer' = [blindPeer EXCEPT !.listenCalled = TRUE]
  /\ pc' = "awaitListen"
  /\ UNCHANGED <<flags, sample, proc, error, config, instrumentation, hook, timers, repl, log,
                 delivered>>

ListenResolves ==
  /\ Running /\ pc = "awaitListen"
  /\ blindPeer' = [blindPeer EXCEPT !.listening = TRUE]
  /\ pc' = "listening"
  /\ UNCHANGED <<flags, sample, proc, error, config, instrumentation, hook, timers, repl, log,
                 delivered>>

ListenRejects ==
  /\ Running /\ pc = "awaitListen"
  /\ Throw("listen-rejected")
  /\ UNCHANGED <<flags, sample, pc, config, blindPeer, instrumentation, hook, timers, repl, log,
                 delivered>>

\* The two records in the other order.
AnnounceListening_BytesFirst ==
  /\ Running /\ pc = "listening"
  /\ log' = Emit(Emit(log, "info", "Bytes allocated"), "info", "Blind peer listening")
  /\ pc' = "autodiscovery"
  /\ UNCHANGED <<flags, sample, proc, error, config, blindPeer, instrumentation, hook,
                 timers, repl, delivered>>

\* bin.js 273-278: the local address and the bytes allocated.
AnnounceListening ==
  /\ Running /\ pc = "listening"
  /\ log' = Emit(Emit(log, "info", "Blind peer listening"), "info", "Bytes allocated")
  /\ pc' = "autodiscovery"
  /\ UNCHANGED <<flags, sample, proc, error, config, blindPeer, instrumentation, hook, timers,
                 repl, delivered>>

\* bin.js 280-303: the autodiscovery flag is refused.
CheckAutodiscovery ==
  /\ Running /\ pc = "autodiscovery"
  /\ IF Truthy(flags.autodiscoveryRpcKey)
     THEN /\ Throw("autodiscovery-unsupported")
          /\ UNCHANGED pc
     ELSE /\ pc' = "scraper"
          /\ UNCHANGED <<proc, error>>
  /\ UNCHANGED <<flags, sample, config, blindPeer, instrumentation, hook, timers, repl, log,
                 delivered>>

\* bin.js 317: the alias derived from the node's public key.
DefaultAlias(publicKey) ==
  Slice0(<<"b","l","i","n","d","-","p","e","e","r","-">> \o Normalize(publicKey),
         AliasSliceEnd)

\* A length check that is off by one: an alias of 100 characters passes.
AliasTooLong_OffByOne(alias) == Truthy(alias) /\ Len(alias.v) > AliasMaxLen + 1

\* bin.js 313: prometheusAlias && prometheusAlias.length > 99.
AliasTooLong(alias) == Truthy(alias) /\ Len(alias.v) > AliasMaxLen

\* bin.js 312-318: the alias handed to the exporter.
PrometheusAlias(alias, publicKey) ==
  IF ~Truthy(alias) THEN DefaultAlias(publicKey) ELSE alias.v

\* bin.js 305-332: with a scraper public key, decode the credentials, settle
\* the alias, construct the exporter (which may throw), register the metrics
\* and the logger, and call instrumentation.ready().
SetupInstrumentation ==
  /\ Running /\ pc = "scraper"
  /\ IF ~Truthy(flags.scraperPublicKey)
     THEN /\ pc' = "running"
          /\ UNCHANGED <<proc, error, blindPeer, instrumentation, log>>
     ELSE /\ log' = Emit(log, "info", "Setting up instrumentation")
          /\ IF ~Decode(flags.scraperPublicKey.v).ok
             THEN /\ Throw("undecodable-scraper-public-key")
                  /\ UNCHANGED <<pc, blindPeer, instrumentation>>
             ELSE IF ~DecodeFlag(flags.scraperSecret).ok
             THEN /\ Throw("undecodable-scraper-secret")
                  /\ UNCHANGED <<pc, blindPeer, instrumentation>>
             ELSE IF AliasTooLong(flags.scraperAlias)
             THEN /\ Throw("oversized-alias")
                  /\ UNCHANGED <<pc, blindPeer, instrumentation>>
             ELSE \/ /\ instrumentation' =
                          [instrumentation EXCEPT
                             !.exists = TRUE,
                             !.prometheusAlias =
                                PrometheusAlias(flags.scraperAlias, blindPeer.publicKey),
                             !.readyCalled = TRUE]
                     /\ blindPeer' = [blindPeer EXCEPT !.metricsRegistered = TRUE]
                     /\ pc' = "awaitInstrReady"
                     /\ UNCHANGED <<proc, error>>
                  \/ /\ Throw("instrumentation-construction")
                     /\ UNCHANGED <<pc, blindPeer, instrumentation>>
  /\ UNCHANGED <<flags, sample, config, hook, timers, repl, delivered>>

InstrReadyResolves ==
  /\ Running /\ pc = "awaitInstrReady"
  /\ instrumentation' = [instrumentation EXCEPT !.ready = TRUE]
  /\ pc' = "running"
  /\ UNCHANGED <<flags, sample, proc, error, config, blindPeer, hook, timers, repl, log, delivered>>

InstrReadyRejects ==
  /\ Running /\ pc = "awaitInstrReady"
  /\ Throw("instrumentation-ready-rejected")
  /\ UNCHANGED <<flags, sample, pc, config, blindPeer, instrumentation, hook, timers, repl, log,
                 delivered>>

\* bin.js 335-336: the public key and the encryption key are announced.
AnnounceRunning ==
  /\ Running /\ pc = "running"
  /\ log' = Emit(Emit(log, "info", "Listening at"), "info", "Encryption public key is")
  /\ pc' = "autoShutdown"
  /\ UNCHANGED <<flags, sample, proc, error, config, blindPeer, instrumentation, hook, timers,
                 repl, delivered>>

\* A jitter that is subtracted: minutes * (1 - random / 5).
AutoShutdownDelay_Early(minutes, k) ==
  LET m == ToNumber(minutes)
  IN IF m.nan THEN NoDelay
     ELSE [nan |-> FALSE,
           num |-> ToNat(m.digits) * (JitterDivisor * JitterSteps - k),
           den |-> JitterDivisor * JitterSteps]

\* bin.js 339: flags.autoShutdownMinutes * (1 + Math.random() / 5), as the
\* fraction num / den, with Math.random() = k / JitterSteps.
AutoShutdownDelay(minutes, k) ==
  LET m == ToNumber(minutes)
  IN IF m.nan THEN NoDelay
     ELSE [nan |-> FALSE,
           num |-> ToNat(m.digits) * (JitterDivisor * JitterSteps + k),
           den |-> JitterDivisor * JitterSteps]

\* bin.js 346: delay * 60 * 1000.
TimeoutMs(delay) ==
  IF delay.nan THEN NoDelay
  ELSE [delay EXCEPT !.num = delay.num * SecondsPerMinute * MsPerSecond]

\* bin.js 338-348: the auto-shutdown timeout; the handler returns.
ArmAutoShutdown ==
  /\ Running /\ pc = "autoShutdown"
  /\ IF Truthy(flags.autoShutdownMinutes)
     THEN /\ log' = Emit(log, "warn", "Automatically shutting down the process")
          /\ \E k \in 0..(JitterSteps - 1) :
               LET delay == AutoShutdownDelay(flags.autoShutdownMinutes.v, k)
               IN timers' = [timers EXCEPT !.autoShutdown = "armed",
                                           !.delay = delay,
                                           !.ms = TimeoutMs(delay)]
     ELSE UNCHANGED <<log, timers>>
  /\ pc' = "done"
  /\ UNCHANGED <<flags, sample, proc, error, config, blindPeer, instrumentation, hook, repl,
                 delivered>>

\* ----------------------------------------------------- the goodbye hook
\* The handler is at an await or has returned: the event loop can run a
\* signal handler, a timer, a listener or a promise reaction.
Suspended == pc \in {"awaitReady", "awaitListen", "awaitInstrReady", "done"}

\* A hook that does not await instrumentation.close() before it closes the
\* engine.
RunHook_NoAwait(trigger, records) ==
  /\ log' = Emit(IF instrumentation.exists
                 THEN Emit(records, "info", "Closing instrumentation") ELSE records,
                 "info", "Shutting down blind peer")
  /\ instrumentation' = [instrumentation EXCEPT !.closeCalled = instrumentation.exists]
  /\ blindPeer' = [blindPeer EXCEPT !.closeCalled = TRUE]
  /\ hook' = [hook EXCEPT !.pc = "awaitEngineClose", !.trigger = trigger]

\* A hook that calls instrumentation.close() whether or not there is a
\* handle.
RunHook_CloseUnconditionally(trigger, records) ==
  /\ log' = Emit(records, "info", "Closing instrumentation")
  /\ instrumentation' = [instrumentation EXCEPT !.closeCalled = TRUE]
  /\ hook' = [hook EXCEPT !.pc = "awaitInstrClose", !.trigger = trigger]
  /\ UNCHANGED blindPeer

\* A timer-triggered teardown of its own, which goes straight to the engine.
RunHook_TimerSkipsInstrumentation(trigger, records) ==
  IF instrumentation.exists /\ trigger # "timer"
  THEN /\ log' = Emit(records, "info", "Closing instrumentation")
       /\ instrumentation' = [instrumentation EXCEPT !.closeCalled = TRUE]
       /\ hook' = [hook EXCEPT !.pc = "awaitInstrClose", !.trigger = trigger]
       /\ UNCHANGED blindPeer
  ELSE /\ log' = Emit(records, "info", "Shutting down blind peer")
       /\ blindPeer' = [blindPeer EXCEPT !.closeCalled = TRUE]
       /\ hook' = [hook EXCEPT !.pc = "awaitEngineClose", !.trigger = trigger]
       /\ UNCHANGED instrumentation

\* bin.js 211-217, to the hook's first await: with an instrumentation handle,
\* 'Closing instrumentation' and instrumentation.close(); without one,
\* 'Shutting down blind peer' and blindPeer.close().
RunHook(trigger, records) ==
  IF instrumentation.exists
  THEN /\ log' = Emit(records, "info", "Closing instrumentation")
       /\ instrumentation' = [instrumentation EXCEPT !.closeCalled = TRUE]
       /\ hook' = [hook EXCEPT !.pc = "awaitInstrClose", !.trigger = trigger]
       /\ UNCHANGED blindPeer
  ELSE /\ log' = Emit(records, "info", "Shutting down blind peer")
       /\ blindPeer' = [blindPeer EXCEPT !.closeCalled = TRUE]
       /\ hook' = [hook EXCEPT !.pc = "awaitEngineClose", !.trigger = trigger]
       /\ UNCHANGED instrumentation

\* SIGINT or SIGTERM with the hook registered: graceful-goodbye runs it.
Signal ==
  /\ Running /\ Suspended
  /\ hook.registered /\ hook.pc = "idle"
  /\ RunHook("signal", log)
  /\ UNCHANGED <<flags, sample, pc, proc, error, config, timers, repl, delivered>>

\* A signal before the hook is registered has its default action.
Kill ==
  /\ Running /\ ~hook.registered
  /\ proc' = "killed"
  /\ UNCHANGED <<flags, sample, pc, error, config, blindPeer, instrumentation, hook, timers,
                 repl, log, delivered>>

\* bin.js 341-347: the timeout fires and calls goodbye.exit(), which runs the
\* hook unless it already runs.
AutoShutdownFires ==
  /\ Running /\ Suspended
  /\ timers.autoShutdown = "armed"
  /\ timers' = [timers EXCEPT !.autoShutdown = "fired"]
  /\ LET records == Emit(log, "warn", "Auto-shutdown triggered")
     IN IF hook.pc = "idle"
        THEN RunHook("timer", records)
        ELSE /\ log' = records
             /\ UNCHANGED <<blindPeer, instrumentation, hook>>
  /\ UNCHANGED <<flags, sample, pc, proc, error, config, repl, delivered>>

\* bin.js 214-217: instrumentation.close() resolved; 'Shutting down blind
\* peer' and blindPeer.close().
InstrCloseResolves ==
  /\ Running /\ Suspended
  /\ hook.pc = "awaitInstrClose"
  /\ instrumentation' = [instrumentation EXCEPT !.closed = TRUE]
  /\ log' = Emit(log, "info", "Shutting down blind peer")
  /\ blindPeer' = [blindPeer EXCEPT !.closeCalled = TRUE]
  /\ hook' = [hook EXCEPT !.pc = "awaitEngineClose"]
  /\ UNCHANGED <<flags, sample, pc, proc, error, config, timers, repl, delivered>>

\* bin.js 214: instrumentation.close() rejected; the await throws out of the
\* hook, whose remaining statements do not run.
InstrCloseRejects ==
  /\ Running /\ Suspended
  /\ hook.pc = "awaitInstrClose"
  /\ hook' = [hook EXCEPT !.pc = "rejected"]
  /\ UNCHANGED <<flags, sample, pc, proc, error, config, blindPeer, instrumentation, timers,
                 repl, log, delivered>>

\* bin.js 217-218: blindPeer.close() resolved; 'Shut down blind peer'.
EngineCloseResolves ==
  /\ Running /\ Suspended
  /\ hook.pc = "awaitEngineClose"
  /\ blindPeer' = [blindPeer EXCEPT !.closed = TRUE]
  /\ log' = Emit(log, "info", "Shut down blind peer")
  /\ hook' = [hook EXCEPT !.pc = "finished"]
  /\ UNCHANGED <<flags, sample, pc, proc, error, config, instrumentation, timers, repl, delivered>>

\* bin.js 217: blindPeer.close() rejected.
EngineCloseRejects ==
  /\ Running /\ Suspended
  /\ hook.pc = "awaitEngineClose"
  /\ hook' = [hook EXCEPT !.pc = "rejected"]
  /\ UNCHANGED <<flags, sample, pc, proc, error, config, blindPeer, instrumentation, timers,
                 repl, log, delivered>>

\* The hook's promise settled: graceful-goodbye exits the process.
ProcessExit ==
  /\ Running /\ Suspended
  /\ hook.pc \in {"finished", "rejected"}
  /\ proc' = "exited"
  /\ UNCHANGED <<flags, sample, pc, error, config, blindPeer, instrumentation, hook, timers,
                 repl, log, delivered>>

Next ==
  \/ ResolveConfig
  \/ Construct
  \/ AttachListeners
  \/ RegisterHook
  \/ SetupRepl
  \/ CallReady
  \/ ReadyResolves
  \/ ReadyRejects
  \/ AttachSwarmListeners
  \/ SetupLogStreams
  \/ CallListen
  \/ ListenResolves
  \/ ListenRejects
  \/ AnnounceListening
  \/ CheckAutodiscovery
  \/ SetupInstrumentation
  \/ InstrReadyResolves
  \/ InstrReadyRejects
  \/ AnnounceRunning
  \/ ArmAutoShutdown
  \/ Signal
  \/ Kill
  \/ AutoShutdownFires
  \/ InstrCloseResolves
  \/ InstrCloseRejects
  \/ EngineCloseResolves
  \/ EngineCloseRejects
  \/ ProcessExit

Spec == Init /\ [][Next]_vars

\* ------------------------------------------------ the event listeners
\* An event's arguments, as far as a listener reads them: obj, the object
\* argument (record, core, peerInfo, from, or the destructured argument)
\* is there; key, it holds a valid key; stream, the stream (or connection)
\* is there with its remote public key; err, the error is there; flag,
\* record.announce or isClient.
SwarmEvents == {"ban", "connection"}
AllEvents == EngineEvents \cup {"core-activity"} \cup SwarmEvents

Fields(event) ==
  CASE event \in {"flush-error", "muxer-error"} -> {"err"}
    [] event \in {"muxer-paired", "add-cores-received", "add-cores-done"} -> {"stream"}
    [] event = "add-new-core" -> {"obj", "key", "stream", "flag"}
    [] event \in {"delete-blocked", "delete-core", "delete-core-end"} ->
         {"obj", "key", "stream"}
    [] event \in {"downgrade-announce", "add-cores-downgrade-announce", "announce-core",
                  "core-downloaded", "core-append", "core-activity"} -> {"obj", "key"}
    [] event = "core-client-mode-changed" -> {"obj", "key", "flag"}
    [] event \in {"gc-start", "gc-done"} -> {"obj"}
    [] event = "invalid-request" -> {"obj", "key", "stream", "err"}
    [] event = "ban" -> {"obj", "key", "err"}
    [] event = "connection" -> {"obj", "key", "stream"}
    [] OTHER -> {}

\* The arguments an event can come with: a field the listener does not read
\* is fixed, and a key needs its object.
Payloads(event) ==
  {p \in [obj : BOOLEAN, key : BOOLEAN, stream : BOOLEAN, err : BOOLEAN, flag : BOOLEAN] :
     /\ \A f \in {"obj", "key", "stream", "err"} \ Fields(event) : p[f]
     /\ "flag" \notin Fields(event) => ~p.flag
     /\ p.key => p.obj}

Malformed(event, p) == \E f \in Fields(event) \ {"flag"} : ~p[f]

Returned(records) == [records |-> records, threw |-> FALSE]
Threw(records) == [records |-> records, threw |-> TRUE]

\* One record, unless an argument of the message cannot be rendered: the
\* template is evaluated before the logger is called.
LogIf(ok, level, msg) ==
  IF ok THEN Returned(Emit(<<>>, level, msg)) ELSE Threw(<<>>)

\* Listeners of which the one of delete-blocked logs at warn.
Handle_BlockedAtWarn(event, p) ==
  CASE event = "delete-blocked" ->
         LogIf(p.obj /\ p.key /\ p.stream, "warn", "Blocked delete-core request")
    [] event = "delete-core" ->
         LogIf(p.obj /\ p.key /\ p.stream, "info", "Received delete-core request")
    [] event = "delete-core-end" ->
         LogIf(p.obj /\ p.key /\ p.stream, "info", "Completed delete-core request")
    [] OTHER -> LogIf(~Malformed(event, p), "info", "other")

\* bin.js 89-201 and 229-245: what the listener of an event does with its
\* arguments.
Handle(event, p) ==
  CASE event = "flush-error" -> LogIf(p.err, "warn", "Error while flushing the db")
    [] event = "muxer-paired" -> LogIf(p.stream, "debug", "Paired muxer with peer")
    [] event = "muxer-error" ->
         LogIf(p.err, "info", "Error while running the muxer protocol")
    [] event = "add-cores-received" ->
         LogIf(p.stream, "debug", "add-cores request received")
    [] event = "add-cores-done" -> LogIf(p.stream, "debug", "add-cores request handled")
    [] event = "add-new-core" ->
         IF p.obj /\ p.key /\ p.stream
         THEN Returned(Emit(<<>>, IF p.flag THEN "info" ELSE "debug",
                            "add-core request received"))
         ELSE Returned(Emit(Emit(<<>>, "info", "Invalid add-core request received"),
                            "info", "record"))
    [] event = "delete-blocked" ->
         LogIf(p.obj /\ p.key /\ p.stream, "info", "Blocked delete-core request")
    [] event = "delete-core" ->
         LogIf(p.obj /\ p.key /\ p.stream, "info", "Received delete-core request")
    [] event = "delete-core-end" ->
         LogIf(p.obj /\ p.key /\ p.stream, "info", "Completed delete-core request")
    [] event = "downgrade-announce" ->
         IF ~p.obj THEN Threw(<<>>)
         ELSE IF p.key THEN Returned(Emit(<<>>, "info", "Downgraded announce"))
         ELSE Returned(Emit(<<>>, "error",
                            "Unexpected error while logging downgrade-announce"))
    [] event = "add-cores-downgrade-announce" ->
         IF ~p.obj THEN Threw(<<>>)
         ELSE IF p.key THEN Returned(Emit(<<>>, "info", "Downgraded announce"))
         ELSE Returned(Emit(<<>>, "error",
                            "Unexpected error while logging add-cores-downgrade-announce"))
    [] event = "announce-core" ->
         LogIf(p.obj /\ p.key, "info", "Started announcing core")
    [] event = "announced-initial-cores" ->
         Returned(Emit(<<>>, "info", "Announced all initial cores"))
    [] event = "core-downloaded" ->
         LogIf(p.obj /\ p.key, "info", "Announced core fully downloaded")
    [] event = "core-append" ->
         LogIf(p.obj /\ p.key, "info", "Detected announced-core length update")
    [] event = "core-client-mode-changed" ->
         LogIf(p.obj /\ p.key, "info",
               IF p.flag THEN "Announced-core enabled client mode"
               ELSE "Announced-core disabled client mode")
    [] event = "gc-start" -> LogIf(p.obj, "info", "Starting GC")
    [] event = "gc-done" -> LogIf(p.obj, "info", "Completed GC")
    [] event = "core-activity" -> LogIf(p.obj /\ p.key, "debug", "Core activity")
    [] event = "invalid-request" ->
         LogIf(p.obj /\ p.key /\ p.stream /\ p.err, "warn", "Received invalid request")
    [] event = "ban" -> LogIf(p.obj /\ p.key /\ p.err, "warn", "Banned peer")
    [] event = "connection" ->
         IF ~(p.obj /\ p.key) THEN Threw(<<>>)
         ELSE IF p.stream THEN Returned(Emit(<<>>, "debug", "Opened connection"))
         ELSE Threw(Emit(<<>>, "debug", "Opened connection"))

HasListener(event) ==
  event \in blindPeer.listeners \/ event \in blindPeer.swarmListeners

\* The engine (or its swarm) emits an event while the handler is suspended:
\* the listener, if there is one, runs to its end before anything else does.
EngineEmits ==
  /\ Running /\ Suspended
  /\ blindPeer.constructed /\ ~blindPeer.closed
  /\ \E event \in AllEvents : \E p \in Payloads(event) :
       LET out == IF HasListener(event) THEN Handle(event, p) ELSE Returned(<<>>)
       IN delivered' = [event |-> event, payload |-> p, records |-> out.records,
                        threw |-> out.threw]
  /\ UNCHANGED <<flags, sample, pc, proc, error, config, blindPeer, instrumentation, hook,
                 timers, repl, log>>

\* The listener is over. An exception it threw leaves through emit() into
\* the engine: it is swallowed there, or it ends the process as an uncaught
\* exception.
ListenerSettles ==
  /\ proc = "running" /\ delivered.event # "none"
  /\ \/ /\ delivered' = NoDelivery
        /\ UNCHANGED <<proc, error>>
     \/ /\ delivered.threw
        /\ Throw("listener-threw")
        /\ UNCHANGED delivered
  /\ UNCHANGED <<flags, sample, pc, config, blindPeer, instrumentation, hook, timers, repl, log>>

\* The runs in which events are delivered: debug on or off, with or without
\* valid scraper credentials and the auto-shutdown timer.
EventFlagSpace ==
  {f \in FlagsOf({"logging", "scraper", "autoShutdown"}) :
     /\ ~f.logStreams
     /\ f.scraperAlias = None
     /\ f.autoShutdownMinutes \in {None, Some(<<"7">>)}
     /\ \/ f.scraperPublicKey = None /\ f.scraperSecret = None
        \/ f.scraperPublicKey = Some(GoodId) /\ f.scraperSecret = Some(GoodId)}

InitEvents == flags \in EventFlagSpace /\ Start

NextEvents == Next \/ EngineEmits \/ ListenerSettles

SpecEvents == InitEvents /\ [][NextEvents]_vars

\* The handler's synchronous code runs on, and a timeout that is armed
\* fires when the event loop is free: the runs with valid scraper
\* credentials or none, and the auto-shutdown timer or none.
SpecTimer ==
  /\ InitEvents
  /\ [][Next]_vars
  /\ WF_vars(ArmAutoShutdown)
  /\ WF_vars(AutoShutdownFires)

\* ------------------------------------------------ the stream sampler
\* A raw stream as the sampler reads it: the lengths of _wreqs and _wfree,
\* and whether its JSON and handles can be rendered.
StreamStates ==
  {st \in [wreqs : {BigStreamThreshold, BigStreamThreshold + 1}, wfree : {0, 1},
            renders : BOOLEAN] :
     /\ st.wreqs = BigStreamThreshold \/ st.wfree = 0
     /\ st.renders \/ (st.wreqs = BigStreamThreshold /\ st.wfree = 0)}

StreamLists == UNION {[1..n -> StreamStates] : n \in 0..MaxStreams}

\* bin.js 253: stream._wreqs.length - stream._wfree.length.
PendingWrites(stream) == stream.wreqs - stream.wfree

\* A threshold that has to be exceeded.
IsBigStream_Exceeds(stream) == PendingWrites(stream) > BigStreamThreshold

\* bin.js 254: pendingWrites >= 100.
IsBigStream(stream) == PendingWrites(stream) >= BigStreamThreshold

\* A record of the sampler, always at warn: of a stream (its place in the
\* enumeration and its pending writes), the rollup (the count), or the error.
SampleRecord(msg, id, n) == [level |-> "warn", msg |-> msg, id |-> id, n |-> n]

\* bin.js 251-260: the loop over the raw streams from the i-th on; rendering
\* a big stream can throw, which leaves the loop.
RECURSIVE Enumerate(_, _, _, _)
Enumerate(streams, i, nrBigStreams, records) ==
  IF i > Len(streams)
  THEN [records |-> records, nrBigStreams |-> nrBigStreams, threw |-> FALSE]
  ELSE IF ~IsBigStream(streams[i])
  THEN Enumerate(streams, i + 1, nrBigStreams, records)
  ELSE IF ~streams[i].renders
  THEN [records |-> records, nrBigStreams |-> nrBigStreams + 1, threw |-> TRUE]
  ELSE Enumerate(streams, i + 1, nrBigStreams + 1,
                 Append(records, SampleRecord("Stream has pending writes", i,
                                              PendingWrites(streams[i]))))

\* bin.js 250-267: one run of the interval's callback: the loop, the rollup
\* when a stream was big, and the catch around both.
Sample(enumerable, streams) ==
  LET caught == SampleRecord("logStreams errored unexpectedly", 0, 0)
      loop == Enumerate(streams, 1, 0, <<>>)
  IN IF ~enumerable THEN [records |-> <<caught>>, errored |-> TRUE]
     ELSE IF loop.threw THEN [records |-> Append(loop.records, caught), errored |-> TRUE]
     ELSE IF loop.nrBigStreams > 0
     THEN [records |-> Append(loop.records,
                              SampleRecord("Total streams with many pending writes", 0,
                                           loop.nrBigStreams)),
           errored |-> FALSE]
     ELSE [records |-> loop.records, errored |-> FALSE]

\* A callback whose catch clears the interval.
LogStreamsTick_StopsOnError ==
  /\ Running /\ Suspended
  /\ timers.logStreams
  /\ \E enumerable \in BOOLEAN : \E streams \in StreamLists :
       /\ enumerable \/ streams = <<>>
       /\ LET out == Sample(enumerable, streams)
          IN /\ sample' = [taken |-> TRUE,
                           failedBefore |-> sample.failedBefore \/ sample.errored,
                           streams |-> streams,
                           enumerable |-> enumerable,
                           records |-> out.records,
                           errored |-> out.errored]
             /\ timers' = [timers EXCEPT !.logStreams = ~out.errored]
  /\ UNCHANGED <<flags, pc, proc, error, config, blindPeer, instrumentation, hook,
                 repl, log, delivered>>

\* bin.js 249-268: the interval fires while the handler is suspended; its
\* callback runs to its end. The raw streams may not be enumerable at all.
\* The sample remembers whether an earlier run of the callback errored.
LogStreamsTick ==
  /\ Running /\ Suspended
  /\ timers.logStreams
  /\ \E enumerable \in BOOLEAN : \E streams \in StreamLists :
       /\ enumerable \/ streams = <<>>
       /\ LET out == Sample(enumerable, streams)
          IN sample' = [taken |-> TRUE,
                        failedBefore |-> sample.failedBefore \/ sample.errored,
                        streams |-> streams,
                        enumerable |-> enumerable,
                        records |-> out.records,
                        errored |-> out.errored]
  /\ UNCHANGED <<flags, pc, proc, error, config, blindPeer, instrumentation, hook,
                 timers, repl, log, delivered>>

\* The runs in which the sampler is on, with or without valid scraper
\* credentials; no auto-shutdown timer is asked for.
StreamFlagSpace ==
  {f \in FlagsOf({"logging", "scraper"}) :
     /\ f.logStreams /\ ~f.debug
     /\ f.scraperAlias = None
     /\ \/ f.scraperPublicKey = None /\ f.scraperSecret = None
        \/ f.scraperPublicKey = Some(GoodId) /\ f.scraperSecret = Some(GoodId)}

InitStreams == flags \in StreamFlagSpace /\ Start

\* Every step of the handler, the hook and the sampler; the auto-shutdown
\* timeout is never armed in these runs.
NextStreams ==
  \/ ResolveConfig
  \/ Construct
  \/ AttachListeners
  \/ RegisterHook
  \/ SetupRepl
  \/ CallReady
  \/ ReadyResolves
  \/ ReadyRejects
  \/ AttachSwarmListeners
  \/ SetupLogStreams
  \/ CallListen
  \/ ListenResolves
  \/ ListenRejects
  \/ AnnounceListening
  \/ CheckAutodiscovery
  \/ SetupInstrumentation
  \/ InstrReadyResolves
  \/ InstrReadyRejects
  \/ AnnounceRunning
  \/ ArmAutoShutdown
  \/ Signal
  \/ Kill
  \/ InstrCloseResolves
  \/ InstrCloseRejects
  \/ EngineCloseResolves
  \/ EngineCloseRejects
  \/ ProcessExit
  \/ LogStreamsTick

SpecStreams == InitStreams /\ [][NextStreams]_vars

\* ================================================================ claims

\* C1: in a shutdown started by a signal or by the auto-shutdown timer, with
\* events delivered in between: while instrumentation.close() is pending the
\* engine's close() has not begun, and in the step in which blindPeer.close()
\* begins, an instrumentation handle that exists has completed its close.
C1_ShutdownOrder ==
  /\ [](hook.pc = "awaitInstrClose" => ~blindPeer.closeCalled)
  /\ [][(~blindPeer.closeCalled /\ blindPeer.closeCalled')
          => (instrumentation.exists => instrumentation'.closed)]_vars

\* A timer-triggered shutdown has closed the instrumentation and begun the
\* engine's close, and a listener is running.
C1_Witness ==
  /\ hook.trigger = "timer"
  /\ instrumentation.closed /\ blindPeer.closeCalled
  /\ delivered.event # "none"

\* C2: when the hook has settled, blindPeer.close() was invoked: a rejected
\* instrumentation.close() does not make the hook skip the engine's close.
C2_NoStepSkipped ==
  hook.pc \in {"finished", "rejected"} => blindPeer.closeCalled

\* The hook is registered before listen() is called (bin.js 211 before 271).
HookRegisteredBeforeListening == blindPeer.listenCalled => hook.registered

\* C3: the hook is registered before the engine listens, and when the handler
\* has failed during or after listening (listen() rejected, the autodiscovery
\* error, an instrumentation setup error, a listener that threw), the hook
\* has run.
C3_FailureReachesShutdown ==
  /\ HookRegisteredBeforeListening
  /\ (proc = "crashed" /\ blindPeer.listenCalled) => hook.pc # "idle"

\* The lifecycle state the handler has reached: Constructing 0, Ready 1,
\* Listening 2, Instrumented 3, Running 4.
StartupRank ==
  CASE pc \in {"start", "construct", "attach", "goodbye", "repl", "ready",
               "awaitReady"} -> 0
    [] pc \in {"swarm", "logStreams", "listen", "awaitListen"} -> 1
    [] pc \in {"listening", "autodiscovery", "scraper"} -> 2
    [] pc = "awaitInstrReady" -> 3
    [] pc \in {"running", "autoShutdown", "done"} -> 4

\* ShuttingDown 1 and Stopped 2, once the hook runs.
ShutdownRank ==
  CASE hook.pc = "idle" -> 0
    [] hook.pc \in {"awaitInstrClose", "awaitEngineClose"} -> 1
    [] hook.pc \in {"finished", "rejected"} -> 2

\* The order of the startup calls: listen() after ready() resolved, the
\* instrumentation after listen() resolved, the announcement after
\* instrumentation.ready() resolved.
StartupOrder ==
  /\ blindPeer.listenCalled => blindPeer.opened
  /\ instrumentation.exists => blindPeer.listening
  /\ (pc \in {"running", "autoShutdown", "done"} /\ instrumentation.exists)
       => instrumentation.ready

\* C4: the lifecycle only moves forward through Constructing, Ready,
\* Listening, (Instrumented), Running, ShuttingDown, Stopped: the startup
\* calls keep their order, no state is left for an earlier one, and once
\* ShuttingDown is entered no startup state is entered any more.
C4_ForwardOnly ==
  /\ []StartupOrder
  /\ [][/\ StartupRank' >= StartupRank
        /\ ShutdownRank' >= ShutdownRank
        /\ ShutdownRank > 0 => StartupRank' = StartupRank]_vars

\* C5: with --autodiscovery-rpc-key the engine is never constructed, never
\* readied and never listening.
C5_AutodiscoveryBeforeEngine ==
  Truthy(flags.autodiscoveryRpcKey)
    => ~blindPeer.constructed /\ ~blindPeer.readyCalled /\ ~blindPeer.listening

\* C6: a listener handed a malformed payload does not throw, does not end the
\* process, and writes an error-level record.
C6_MalformedPayloadLogged ==
  (/\ delivered.event # "none"
   /\ HasListener(delivered.event)
   /\ Malformed(delivered.event, delivered.payload))
    => /\ ~delivered.threw
       /\ error # "listener-threw"
       /\ \E i \in 1..Len(delivered.records) : delivered.records[i].level = "error"

\* C7: with a trusted-peer identifier that does not decode, no engine is
\* constructed and nothing of the network is started; an engine that is
\* constructed holds the decoded key of every identifier supplied, in order.
C7_TrustedKeysAllOrNone ==
  /\ (\E i \in 1..Len(flags.trustedPeer) : ~Decode(flags.trustedPeer[i]).ok)
       => /\ ~blindPeer.constructed
          /\ ~blindPeer.readyCalled /\ ~blindPeer.listenCalled /\ ~repl
  /\ blindPeer.constructed
       => /\ Len(blindPeer.trustedPubKeys) = Len(flags.trustedPeer)
          /\ \A i \in 1..Len(flags.trustedPeer) :
               /\ Decode(flags.trustedPeer[i]).ok
               /\ blindPeer.trustedPubKeys[i] = Decode(flags.trustedPeer[i]).key

\* Startup was aborted by a list that holds a key that decodes and one that
\* does not.
C7_Witness ==
  /\ proc = "crashed" /\ error = "undecodable-trusted-peer"
  /\ \E i \in 1..Len(flags.trustedPeer) : Decode(flags.trustedPeer[i]).ok
  /\ ~blindPeer.constructed

\* A string of decimal digits only, and one that is not.
IsDecimal(s) == s # <<>> /\ \A i \in 1..Len(s) : IsDigitIn(s[i], 10)
NonNumeric(s) == s # <<>> /\ \E i \in 1..Len(s) : ~IsDigitIn(s[i], 10)
DecimalValue(s) == ToNat([i \in 1..Len(s) |-> HexVal(s[i])])

\* C8: the engine is constructed with n * 1_000_000 bytes for a max-storage
\* input that is the positive integer n and with 100_000 * 1_000_000 when the
\* flag is absent; it is never constructed from a non-numeric input, nor with
\* a budget that is NaN.
C8_ByteBudget ==
  blindPeer.constructed =>
    LET m == flags.maxStorage
    IN /\ ~m.set
            => blindPeer.maxBytes
                 = Num(FromNat(DEFAULT_STORAGE_LIMIT_MB) \o <<0, 0, 0, 0, 0, 0>>, FALSE)
       /\ (m.set /\ IsDecimal(m.v) /\ DecimalValue(m.v) > 0)
            => blindPeer.maxBytes = Num(FromNat(DecimalValue(m.v) * 1000000), FALSE)
       /\ ~(m.set /\ NonNumeric(m.v))
       /\ ~blindPeer.maxBytes.nan

\* The budget of the inputs the code handles as promised: absent, or the
\* decimal text of a positive integer.
ByteBudgetOfIntegers ==
  blindPeer.constructed =>
    LET m == flags.maxStorage
    IN /\ ~m.set
            => blindPeer.maxBytes
                 = Num(FromNat(DEFAULT_STORAGE_LIMIT_MB) \o <<0, 0, 0, 0, 0, 0>>, FALSE)
       /\ (m.set /\ IsDecimal(m.v) /\ DecimalValue(m.v) > 0)
            => blindPeer.maxBytes = Num(FromNat(DecimalValue(m.v) * 1000000), FALSE)

\* The default alias, character by character: "blind-peer-" and then the z32
\* text of the node's public key, at most 99 characters in all.
IsDefaultAliasOf(alias, publicKey) ==
  LET prefix == <<"b", "l", "i", "n", "d", "-", "p", "e", "e", "r", "-">>
      z == Normalize(publicKey)
  IN /\ Len(alias) <= 99
     /\ Len(alias) = (IF 11 + Len(z) < 99 THEN 11 + Len(z) ELSE 99)
     /\ \A i \in 1..Len(alias) :
          alias[i] = (IF i <= 11 THEN prefix[i] ELSE z[i - 11])

\* C9 as stated: an alias of 100 characters or more never gets an exporter
\* constructed; every supplied alias shorter than that, the empty string
\* included, is the alias of the exporter; with no alias the exporter gets the
\* default derived from the public key.
C9_AliasAsStated ==
  LET a == flags.scraperAlias
  IN /\ (a.set /\ Len(a.v) >= 100) => ~instrumentation.exists
     /\ (instrumentation.exists /\ a.set) => instrumentation.prometheusAlias = a.v
     /\ (instrumentation.exists /\ ~a.set)
          => IsDefaultAliasOf(instrumentation.prometheusAlias, blindPeer.publicKey)

\* C9, amended: an alias of 100 characters or more never gets an exporter
\* constructed; every supplied non-empty alias shorter than that is the alias
\* of the exporter, unmodified; with no alias, or with the empty string, the
\* exporter gets the default: at most 99 characters, "blind-peer-" and the
\* z32 text of the node's public key.
C9_Alias ==
  LET a == flags.scraperAlias
  IN /\ (a.set /\ Len(a.v) >= 100) => ~instrumentation.exists
     /\ (instrumentation.exists /\ a.set /\ a.v # <<>>)
          => instrumentation.prometheusAlias = a.v
     /\ (instrumentation.exists /\ (~a.set \/ a.v = <<>>))
          => IsDefaultAliasOf(instrumentation.prometheusAlias, blindPeer.publicKey)

\* An exporter was constructed in a run that was given the empty alias.
C9_Witness ==
  /\ flags.scraperAlias = Some(<<>>)
  /\ instrumentation.exists
  /\ instrumentation.prometheusAlias # <<>>

\* bin.js 81, 222, 309-314: the errors raised by a flag value: a key that
\* does not decode, an alias that is too long.
IsInvalidConfiguration(e) ==
  e \in {"undecodable-trusted-peer", "undecodable-repl-seed",
         "undecodable-scraper-public-key", "undecodable-scraper-secret",
         "oversized-alias"}

\* C10: no run has the engine listening and a configuration error raised.
C10_ConfigurationErrorsPreListen ==
  IsInvalidConfiguration(error) => ~blindPeer.listening

\* bin.js 305-310: a scraper public key and a scraper secret were given.
ScraperCredentialsSupplied ==
  Truthy(flags.scraperPublicKey) /\ Truthy(flags.scraperSecret)

\* C11: an instrumentation handle exists only once the engine listens and
\* only with scraper credentials; the step that constructs it starts without
\* one, and a handle is never replaced; without scraper credentials there is
\* never a handle and instrumentation.close() is never called.
C11_InstrumentationHandle ==
  /\ [](instrumentation.exists => blindPeer.listening /\ ScraperCredentialsSupplied)
  /\ [](~ScraperCredentialsSupplied
          => ~instrumentation.exists /\ ~instrumentation.closeCalled)
  /\ [][/\ (pc # "awaitInstrReady" /\ pc' = "awaitInstrReady")
             => ~instrumentation.exists /\ instrumentation'.exists
        /\ instrumentation.exists
             => /\ instrumentation'.exists
                /\ instrumentation'.prometheusAlias = instrumentation.prometheusAlias]_vars

\* A node without scraper credentials listened and was shut down by its
\* hook.
C11_Witness ==
  /\ ~ScraperCredentialsSupplied
  /\ blindPeer.listening
  /\ hook.pc = "finished"
  /\ ~instrumentation.closeCalled

\* C12: with auto-shutdown asked for, once the node has announced that it
\* runs the timeout fires unless the process ends first; when it fires the
\* hook runs (or already does); and the hook begins the same way whatever
\* began it: with a handle, instrumentation.close() and not yet the engine's
\* close; without one, the engine's close; the engine's close follows the
\* completed close of the handle.
C12_TimerSharesHook ==
  /\ (Truthy(flags.autoShutdownMinutes) /\ pc = "autoShutdown")
       ~> (timers.autoShutdown = "fired" \/ proc # "running")
  /\ [][(timers.autoShutdown = "armed" /\ timers'.autoShutdown = "fired")
          => hook'.pc # "idle"]_vars
  /\ [][(hook.pc = "idle" /\ hook'.pc # "idle")
          => /\ hook'.trigger \in {"signal", "timer"}
             /\ IF instrumentation.exists
                THEN /\ hook'.pc = "awaitInstrClose"
                     /\ instrumentation'.closeCalled /\ ~blindPeer'.closeCalled
                ELSE /\ hook'.pc = "awaitEngineClose"
                     /\ blindPeer'.closeCalled /\ ~instrumentation'.closeCalled]_vars
  /\ [][(hook.pc = "awaitInstrClose" /\ hook'.pc = "awaitEngineClose")
          => instrumentation'.closed /\ blindPeer'.closeCalled]_vars

\* The timeout fired, began the hook, and the hook closed the handle and then
\* the engine.
C12_Witness ==
  /\ timers.autoShutdown = "fired"
  /\ hook.trigger = "timer" /\ hook.pc = "finished"
  /\ instrumentation.closed /\ blindPeer.closed

\* C13: when the auto-shutdown flag is the decimal text of a positive
\* integer m, the delay d the timeout is armed from satisfies m <= d and
\* d <= 1.2 * m for every draw of the jitter, and the timeout is armed with
\* d * 60 * 1000 milliseconds.
C13_DelayWithinJitter ==
  (/\ timers.autoShutdown # "none"
   /\ IsDecimal(flags.autoShutdownMinutes.v)
   /\ DecimalValue(flags.autoShutdownMinutes.v) > 0)
    => LET m == DecimalValue(flags.autoShutdownMinutes.v)
           d == timers.delay
       IN /\ ~d.nan /\ d.den > 0
          /\ m * d.den <= d.num
          /\ 5 * d.num <= 6 * m * d.den
          /\ ~timers.ms.nan
          /\ timers.ms.den = d.den
          /\ timers.ms.num = d.num * 60 * 1000

\* The timeout is armed for a positive number of minutes with a jitter above
\* zero.
C13_Witness ==
  /\ timers.autoShutdown = "armed"
  /\ IsDecimal(flags.autoShutdownMinutes.v)
  /\ DecimalValue(flags.autoShutdownMinutes.v) > 0
  /\ timers.delay.num > DecimalValue(flags.autoShutdownMinutes.v) * timers.delay.den

\* C14 as stated, of the occurrences with a well-formed payload alone: every
\* one leaves exactly one record, with debug on or off.
C14_ExactlyOneRecord ==
  (delivered.event # "none" /\ ~Malformed(delivered.event, delivered.payload))
    => Len(delivered.records) = 1

\* bin.js 94, 100, 103, 113, 190, 235: the occurrences a listener logs with
\* logger.debug.
DebugSeverity(event, p) ==
  \/ event \in {"muxer-paired", "add-cores-received", "add-cores-done",
                "core-activity", "connection"}
  \/ event = "add-new-core" /\ ~p.flag

\* C14, amended: an event without a listener leaves no record; an event with a
\* listener and a well-formed payload leaves exactly one record, or none when
\* the listener logs it at debug and debug is off, and its listener does not
\* throw; a malformed payload leaves two records from add-new-core, one from a
\* downgrade listener or from connection when they got as far as their key,
\* and none from any other listener.
C14_OneRecordAtItsLevel ==
  delivered.event # "none" =>
    LET e == delivered.event
        p == delivered.payload
        n == Len(delivered.records)
    IN /\ ~HasListener(e) => n = 0
       /\ (HasListener(e) /\ ~Malformed(e, p))
            => /\ ~delivered.threw
               /\ n = (IF DebugSeverity(e, p) /\ ~flags.debug THEN 0 ELSE 1)
       /\ (HasListener(e) /\ Malformed(e, p))
            => n = (CASE e = "add-new-core" -> 2
                      [] e \in {"downgrade-announce", "add-cores-downgrade-announce"}
                           /\ p.obj -> 1
                      [] e = "connection" /\ p.obj /\ p.key -> 1
                      [] OTHER -> 0)

\* With debug off a muxer was paired, its payload well-formed, and no record
\* was written.
C14_Witness ==
  /\ delivered.event = "muxer-paired"
  /\ HasListener(delivered.event)
  /\ ~Malformed(delivered.event, delivered.payload)
  /\ ~flags.debug
  /\ delivered.records = <<>>

\* README, Output: the records of an example startup, in their order.
DocumentedStartup ==
  <<"Starting blind peer", "Using storage", "Blind peer listening", "Bytes allocated",
    "Listening at", "Encryption public key is">>

\* The documented records among those written so far, in the order written.
StartupRecords ==
  LET documented == {DocumentedStartup[i] : i \in 1..Len(DocumentedStartup)}
      kept == SelectSeq(log, LAMBDA r : r.msg \in documented)
  IN [i \in 1..Len(kept) |-> kept[i].msg]

Logged(msg) == \E i \in 1..Len(log) : log[i].msg = msg

\* C15: the documented startup records are written in the documented order,
\* each once; a startup that got to its end wrote all six; 'Blind peer
\* listening' is written only once listen() resolved and 'Listening at' only
\* once the engine is ready.
C15_StartupLogOrder ==
  /\ Len(StartupRecords) <= Len(DocumentedStartup)
  /\ StartupRecords = SubSeq(DocumentedStartup, 1, Len(StartupRecords))
  /\ pc \in {"autoShutdown", "done"} => StartupRecords = DocumentedStartup
  /\ Logged("Blind peer listening") => blindPeer.listening
  /\ Logged("Listening at") => blindPeer.opened /\ blindPeer.listening

\* A startup with instrumentation got to its end: other records lie between
\* the documented ones.
C15_Witness ==
  /\ pc = "done"
  /\ instrumentation.ready
  /\ StartupRecords = DocumentedStartup
  /\ Len(log) > Len(DocumentedStartup)

\* C16 as stated: when ready() is invoked every listener is attached, the
\* engine's and the swarm's.
C16_AllAttachedBeforeReady ==
  blindPeer.readyCalled
    => /\ EngineEvents \subseteq blindPeer.listeners
       /\ "ban" \in blindPeer.swarmListeners
       /\ flags.debug => "connection" \in blindPeer.swarmListeners

\* C16, amended: when ready() is invoked every engine-level listener is
\* attached; the swarm-level listeners are attached after ready() resolved
\* and before listen() is invoked. An engine event emitted during ready() or
\* listen() finds its listener, and so does a swarm event emitted during
\* listen(); a swarm event emitted during ready() finds none.
C16_ListenersAttached ==
  /\ blindPeer.readyCalled
       => /\ EngineEvents \subseteq blindPeer.listeners
          /\ flags.debug => "core-activity" \in blindPeer.listeners
  /\ ~blindPeer.opened => blindPeer.swarmListeners = {}
  /\ blindPeer.listenCalled
       => /\ "ban" \in blindPeer.swarmListeners
          /\ flags.debug => "connection" \in blindPeer.swarmListeners
  /\ delivered.event \in EngineEvents => HasListener(delivered.event)
  /\ (delivered.event = "ban" /\ blindPeer.listenCalled) => HasListener(delivered.event)
  /\ (delivered.event \in SwarmEvents /\ pc = "awaitReady")
       => ~HasListener(delivered.event)

\* A peer is banned while listen() is pending, and the ban listener runs.
C16_Witness ==
  /\ pc = "awaitListen"
  /\ delivered.event = "ban"
  /\ HasListener(delivered.event)
  /\ Len(delivered.records) = 1

\* bin.js 122-136.
DeleteEvents == {"delete-blocked", "delete-core", "delete-core-end"}

\* C17 as stated, of the occurrences with a well-formed payload alone: a
\* delete-blocked event leaves a record at warn, a delete-core event and a
\* delete-core-end event one at info.
C17_BlockedAtWarn ==
  (delivered.event \in DeleteEvents
     /\ ~Malformed(delivered.event, delivered.payload))
    => /\ Len(delivered.records) = 1
       /\ delivered.records[1].level
            = (IF delivered.event = "delete-blocked" THEN "warn" ELSE "info")

\* C17, amended: each of the three delete events, its payload well-formed,
\* leaves exactly one record, at info, with a message of its own: blocked,
\* received, completed; with a malformed payload its listener throws and
\* leaves none. No record of these listeners is at warn.
C17_DeleteEventsAtInfo ==
  delivered.event \in DeleteEvents =>
    /\ HasListener(delivered.event)
    /\ ~Malformed(delivered.event, delivered.payload)
         => /\ ~delivered.threw
            /\ delivered.records =
                 <<[level |-> "info",
                    msg |-> CASE delivered.event = "delete-blocked" ->
                                   "Blocked delete-core request"
                              [] delivered.event = "delete-core" ->
                                   "Received delete-core request"
                              [] delivered.event = "delete-core-end" ->
                                   "Completed delete-core request"]>>
    /\ Malformed(delivered.event, delivered.payload)
         => delivered.threw /\ delivered.records = <<>>

\* A delete request of an untrusted peer was blocked and logged at info.
C17_Witness ==
  /\ delivered.event = "delete-blocked"
  /\ ~Malformed(delivered.event, delivered.payload)
  /\ Len(delivered.records) = 1
  /\ delivered.records[1].level = "info"

\* The records of the latest sample with a given message.
SampleRecordsOf(msg) == SelectSeq(sample.records, LAMBDA r : r.msg = msg)

\* The latest sample warned about exactly the streams at the places in big,
\* each once and with its count of pending writes, and then reported how many
\* they are, or reported nothing when there are none.
SampleReports(big) ==
  LET warned == SampleRecordsOf("Stream has pending writes")
      rollups == SampleRecordsOf("Total streams with many pending writes")
  IN /\ Len(warned) = Cardinality(big)
     /\ {warned[j].id : j \in 1..Len(warned)} = big
     /\ \A j \in 1..Len(warned) :
          /\ warned[j].level = "warn"
          /\ warned[j].n = sample.streams[warned[j].id].wreqs
                             - sample.streams[warned[j].id].wfree
     /\ IF big = {} THEN rollups = <<>>
        ELSE /\ Len(rollups) = 1
             /\ rollups[1].level = "warn" /\ rollups[1].n = Cardinality(big)
             /\ sample.records[Len(sample.records)] = rollups[1]

\* The places of the streams of the latest sample with more than n pending
\* writes.
StreamsAbove(n) ==
  {i \in 1..Len(sample.streams) : sample.streams[i].wreqs - sample.streams[i].wfree > n}

\* C18 as stated: a sample that ran to its end warned about exactly the
\* streams with more than 100 pending writes and counted exactly those.
C18_ExceedsThreshold ==
  (sample.taken /\ ~sample.errored) => SampleReports(StreamsAbove(100))

\* C18, amended: a sample that ran to its end warned about exactly the
\* streams with 100 pending writes or more and counted exactly those, with
\* no rollup when there is none; a sample cut short by an error wrote no
\* rollup.
C18_AtLeastThreshold ==
  /\ (sample.taken /\ ~sample.errored) => SampleReports(StreamsAbove(99))
  /\ sample.errored => SampleRecordsOf("Total streams with many pending writes") = <<>>

\* A sample met a stream with exactly 100 pending writes, warned about it and
\* counted it.
C18_Witness ==
  /\ sample.taken /\ ~sample.errored
  /\ \E i \in 1..Len(sample.streams) :
       sample.streams[i].wreqs - sample.streams[i].wfree = 100
  /\ StreamsAbove(100) = {}
  /\ Len(SampleRecordsOf("Total streams with many pending writes")) = 1

\* C19: a sample that errored, while enumerating or while rendering a
\* stream, ends with the catch's record at warn; a run of the sampler changes
\* nothing but the sample: not the process, not the handler, the hook, the
\* engine, the instrumentation, the timers; and after it the interval is
\* still armed and its next run can take place.
C19_SampleErrorsCaught ==
  /\ [](sample.errored
          => /\ sample.records # <<>>
             /\ sample.records[Len(sample.records)]
                  = SampleRecord("logStreams errored unexpectedly", 0, 0)
             /\ timers.logStreams
             /\ (Running /\ Suspended) => ENABLED LogStreamsTick)
  /\ [][sample' # sample
          => UNCHANGED <<pc, proc, error, config, blindPeer, instrumentation, hook,
                         timers, repl, log>>]_vars

\* A sample ran to its end after an earlier one had errored.
C19_Witness ==
  /\ sample.taken /\ sample.failedBefore /\ ~sample.errored
  /\ proc = "running"
  /\ timers.logStreams

\* C20: once the hook has begun, the handler constructs no instrumentation
\* handle and registers no metrics; and when the engine's close has begun,
\* a handle that exists has completed its close.
C20_NoHandleAfterShutdownBegan ==
  /\ [][hook.pc # "idle"
          => /\ instrumentation'.exists = instrumentation.exists
             /\ blindPeer'.metricsRegistered = blindPeer.metricsRegistered]_vars
  /\ []((blindPeer.closeCalled /\ instrumentation.exists) => instrumentation.closed)

\* C21: the auto-shutdown timeout exists only when the flag asks for it and
\* the handler has come to its end: the engine listens and, with a scraper
\* public key, instrumentation.ready() has resolved; before that, and after a
\* startup that failed, there is none. It is armed from the state without a
\* timeout only, and its delay stays what it was armed with. A shutdown begun
\* by the timeout begins after the handler's end, never in Constructing,
\* Ready, Listening or the instrumentation setup.
C21_TimerAfterStartup ==
  /\ [](timers.autoShutdown # "none"
          => /\ Truthy(flags.autoShutdownMinutes)
             /\ pc = "done"
             /\ blindPeer.opened /\ blindPeer.listening
             /\ Truthy(flags.scraperPublicKey)
                  => instrumentation.exists /\ instrumentation.ready)
  /\ [](pc # "done" => timers.autoShutdown = "none")
  /\ [](hook.trigger = "timer" => pc = "done" /\ timers.autoShutdown = "fired")
  /\ [][/\ (timers.autoShutdown # "armed" /\ timers'.autoShutdown = "armed")
             => timers.autoShutdown = "none" /\ pc = "autoShutdown"
        /\ timers.autoShutdown # "none"
             => timers'.delay = timers.delay /\ timers'.ms = timers.ms]_vars

\* The timeout fired after a startup with instrumentation, and the hook it
\* began waits for the handle's close.
C21_Witness ==
  /\ timers.autoShutdown = "fired"
  /\ hook.trigger = "timer"
  /\ hook.pc = "awaitInstrClose"
  /\ instrumentation.ready
  /\ pc = "done"

====
